---- MODULE Spec2Model ----
(***************************************************************************)
(* Model of the repository's two programs.  src/main.py, the fetch -        *)
(* download pipeline: session, catalog fetch, identifier extraction, the   *)
(* sequential download loop and the naming of the downloaded files.        *)
(* src/pdf_validator.py, the validation sweep: the walk of the download    *)
(* directory, the worker pool and the validate-then-delete task of each    *)
(* file.                                                                   *)
(*                                                                         *)
(* Specifications: Spec (a run of main.py), SpecName (url_to_filename on   *)
(* one URL), SpecExtract (extract_pdf_document_ids on one payload),        *)
(* SpecSweep (a run of pdf_validator.py), SpecBoth (the download loop and  *)
(* the sweep running side by side on the same directory).                  *)
(*                                                                         *)
(* Text is modelled character by character: a Python str is a sequence of  *)
(* one-character strings.  A character outside ASCII is written as a       *)
(* token such as "U+00E9".                                                 *)
(***************************************************************************)
EXTENDS Integers, Sequences, FiniteSets, TLC

VARIABLES
    \* ---- main.py: main() and download_pdf() ----
    pc,             \* position of main() ("idle" when main is not run)
    session_result, \* what start_browser_and_get_auth_cookies returned
    exit_reason,    \* why main() returned ("" while running)
    store,          \* the destination directory: full path -> file content
    store0,         \* history: the store when the run started
    fetch_log,      \* log category written by fetch_json_data ("" before it ran)
    fetch_exc,      \* the exception fetch_json_data caught, if any, and the status
    raw_data,       \* result of fetch_json_data: [none |-> TRUE] or a payload
    pdf_ids,        \* result of extract_pdf_document_ids in main()
    idx,            \* position of the download loop in pdf_ids (1-based)
    calls,          \* history: the download_pdf calls made, [id, path] each
    full_path,      \* download_pdf: the computed local path of the current call
    store_before,   \* history: the store when the current call started
    reqs_before,    \* history: dl_requests when the current call started
    response,       \* download_pdf: the response object of the current call
    bytes_written,  \* download_pdf: counter of line 308
    chunks_read,    \* number of chunks iter_content has yielded in this call
    outcome,        \* log category of the current/last download_pdf call
    caught,         \* the exception caught in the current/last call, if any
    dl_requests,    \* number of GET requests issued for downloads
    open_responses, \* responses opened and not (yet) closed
    \* ---- url_to_filename applied to one URL ----
    n_pc, n_url, n_safe_name, n_result,
    \* ---- extract_pdf_document_ids applied to one payload ----
    x_pc, x_payload, x_result,
    \* ---- pdf_validator.py: main() and its worker tasks ----
    v_pc,           \* position of the validator's main() ("idle" when not run)
    cpu_count,      \* what os.cpu_count() returned, 0 for None
    MAX_WORKERS,    \* the local of line 212
    pdf_file_paths, \* the paths the walk returned
    task,           \* path -> state of its process_pdf_file task
    v_store         \* history: the store as the walk listed it

pipeVars == <<pc, session_result, exit_reason, store, store0, fetch_log, fetch_exc, raw_data, pdf_ids, idx,
              calls, full_path, store_before, reqs_before, response,
              bytes_written, chunks_read, outcome, caught, dl_requests,
              open_responses>>
nameVars == <<n_pc, n_url, n_safe_name, n_result>>
extractVars == <<x_pc, x_payload, x_result>>
sweepVars == <<v_pc, cpu_count, MAX_WORKERS, pdf_file_paths, task, v_store>>
vars == <<pipeVars, nameVars, extractVars, sweepVars>>

(***************************************************************************)
(* Bounds of the model.                                                    *)
(***************************************************************************)
MaxNameLen == 2     \* free characters of a content= value (before its ending)
MaxIds == 2         \* length of the identifier list of a run
MaxChunks == 2      \* chunks a response body is streamed in
MaxRows == 2        \* rows of a catalog payload
MaxFields == 2      \* fields of a catalog row
MaxFiles == 3       \* files in the directory a sweep starts on
MaxCpu == 2         \* largest CPU count os.cpu_count() reports

(***************************************************************************)
(* Characters and strings.                                                 *)
(***************************************************************************)
UpperCase == <<"A", "B", "C", "D", "E", "F", "G", "H", "I", "J", "K", "L", "M",
               "N", "O", "P", "Q", "R", "S", "T", "U", "V", "W", "X", "Y", "Z">>
LowerCase == <<"a", "b", "c", "d", "e", "f", "g", "h", "i", "j", "k", "l", "m",
               "n", "o", "p", "q", "r", "s", "t", "u", "v", "w", "x", "y", "z">>
Digits == {"0", "1", "2", "3", "4", "5", "6", "7", "8", "9"}
Range(s) == {s[i] : i \in DOMAIN s}
AsciiLetters == Range(UpperCase) \cup Range(LowerCase)
\* Letters outside ASCII: Python 3 str patterns are Unicode-aware, \w matches them.
UnicodeLetters == {"U+00E9"}
\* str.strip() and \s: whitespace characters.
Whitespace == {" ", "\t", "\n", "\r"}
\* "." in a pattern (no DOTALL) matches anything but a newline.
Newline == {"\n"}

\* The class \w of Python's re on str: letters, digits and the underscore.
IsWordChar(c) == c \in AsciiLetters \cup Digits \cup UnicodeLetters \cup {"_"}
\* Complement of the class [^\w\.\-] of line 421.
IsSafeChar(c) == IsWordChar(c) \/ c = "." \/ c = "-"

\* str.lower(), one character.
LowerChar(c) ==
    IF \E i \in DOMAIN UpperCase : UpperCase[i] = c
    THEN LowerCase[CHOOSE i \in DOMAIN UpperCase : UpperCase[i] = c]
    ELSE c
\* str.lower()
lower(s) == [i \in DOMAIN s |-> LowerChar(s[i])]

\* str.endswith(suffix)
endswith(s, suffix) ==
    /\ Len(s) >= Len(suffix)
    /\ SubSeq(s, Len(s) - Len(suffix) + 1, Len(s)) = suffix

\* Position of the first occurrence of t in s at or after position i, 0 if none
\* (str.find; the scan of re.search for a literal).
RECURSIVE FindFrom(_, _, _)
FindFrom(s, t, i) ==
    IF i + Len(t) - 1 > Len(s) THEN 0
    ELSE IF SubSeq(s, i, i + Len(t) - 1) = t THEN i
    ELSE FindFrom(s, t, i + 1)
\* "t in s" of Python
Contains(s, t) == FindFrom(s, t, 1) # 0

\* Length of the longest prefix of s that holds no character of the set stop.
RECURSIVE PrefixLen(_, _)
PrefixLen(s, stop) ==
    IF s = <<>> \/ Head(s) \in stop THEN 0 ELSE 1 + PrefixLen(Tail(s), stop)

\* Length of the longest prefix of s made of characters of the class [^\w\.\-].
RECURSIVE UnsafeRunLen(_)
UnsafeRunLen(s) ==
    IF s = <<>> \/ IsSafeChar(Head(s)) THEN 0 ELSE 1 + UnsafeRunLen(Tail(s))

DropFirst(s, n) == SubSeq(s, n + 1, Len(s))

\* str.strip(): leading and trailing whitespace removed.
RECURSIVE lstrip(_)
lstrip(s) == IF s # <<>> /\ Head(s) \in Whitespace THEN lstrip(Tail(s)) ELSE s
RECURSIVE rstrip(_)
rstrip(s) ==
    IF s # <<>> /\ s[Len(s)] \in Whitespace THEN rstrip(SubSeq(s, 1, Len(s) - 1)) ELSE s
strip(s) == rstrip(lstrip(s))

\* s.split("&")[0]: what precedes the first "&" (all of s if there is none).
split_amp_first(s) == SubSeq(s, 1, PrefixLen(s, {"&"}))

(***************************************************************************)
(* url_to_filename, src/main.py lines 409-430.                             *)
(***************************************************************************)
STR_content_eq == <<"c", "o", "n", "t", "e", "n", "t", "=">>
STR_downloaded_file == <<"d", "o", "w", "n", "l", "o", "a", "d", "e", "d", "_",
                         "f", "i", "l", "e">>
STR_dot_pdf == <<".", "p", "d", "f">>
STR_PDF_suffix == <<"_", "P", "D", "F">>
pdf_base_url ==
    <<"h", "t", "t", "p", "s", ":", "/", "/", "s", "d", "s", ".", "d", "i", "v",
      "e", "r", "s", "e", "y", ".", "c", "o", "m", "/", "M", "y", "D", "o", "c",
      "u", "m", "e", "n", "t", "s", "/", "D", "o", "w", "n", "l", "o", "a", "d",
      "S", "i", "n", "g", "l", "e", "F", "i", "l", "e", "?", "c", "o", "n", "t",
      "e", "n", "t", "=">>

\* re.search(r"content=(.*)", url): the leftmost "content=", and as group 1 the
\* characters after it up to the first newline.
re_search_content(url) ==
    LET at == FindFrom(url, STR_content_eq, 1)
        rest == DropFirst(url, at + Len(STR_content_eq) - 1)
    IN  IF at = 0 THEN [found |-> FALSE, group1 |-> <<>>]
        ELSE [found |-> TRUE, group1 |-> SubSeq(rest, 1, PrefixLen(rest, Newline))]

\* A variant of re_sub_unsafe without the "+" of the pattern: one underscore for
\* each character of the class.
re_sub_unsafe_charwise(s) ==
    [i \in DOMAIN s |-> IF IsSafeChar(s[i]) THEN s[i] ELSE "_"]

\* re.sub(r"[^\w\.\-]+", "_", filename): scanning from the left, every maximal
\* run of characters of the class [^\w\.\-] becomes one underscore.
RECURSIVE re_sub_unsafe(_)
re_sub_unsafe(s) ==
    IF s = <<>> THEN <<>>
    ELSE IF IsSafeChar(Head(s)) THEN <<Head(s)>> \o re_sub_unsafe(Tail(s))
    ELSE <<"_">> \o re_sub_unsafe(DropFirst(s, UnsafeRunLen(s)))

\* Lines 412-424: the value of the local variable safe_name before the
\* extension is forced.
safe_name_of(url) ==
    LET match == re_search_content(url)
    IN  IF match.found
        THEN re_sub_unsafe(strip(split_amp_first(match.group1)))
        ELSE STR_downloaded_file

\* A variant of force_pdf_extension that compares without lower().
force_pdf_extension_case_sensitive(safe_name) ==
    IF ~endswith(safe_name, STR_dot_pdf)
    THEN safe_name \o STR_dot_pdf
    ELSE safe_name

\* Lines 426-430.
force_pdf_extension(safe_name) ==
    IF ~endswith(lower(safe_name), STR_dot_pdf)
    THEN safe_name \o STR_dot_pdf
    ELSE safe_name

url_to_filename(url) == force_pdf_extension(safe_name_of(url))

(***************************************************************************)
(* extract_pdf_document_ids, src/main.py lines 353-392.                    *)
(*                                                                         *)
(* A payload is the text handed to json.loads, described by what it parses *)
(* to: text is "empty" (""), "garbage" (not JSON) or "json"; top, data and *)
(* Data are the JSON kinds of the top-level value, of its member "data"    *)
(* and of that member's "Data" ("absent" when there is no such member);    *)
(* rows are the elements of Data when it is an array, Data_s its           *)
(* characters when it is a string, Data_keys its keys when it is an        *)
(* object.                                                                 *)
(***************************************************************************)
Field(kind, s) == [kind |-> kind, s |-> s]
StrField(s) == Field("string", s)
\* A row: an array of fields, or any other JSON value (n: the number, or the
\* number of members of an object).
Row(kind, fields, s, n) == [kind |-> kind, fields |-> fields, s |-> s, n |-> n]
ArrayRow(fields) == Row("array", fields, <<>>, 0)
StrRow(s) == Row("string", <<>>, s, 0)
Payload(text, top, data, Data, rows, Data_s, Data_keys) ==
    [text |-> text, top |-> top, data |-> data, Data |-> Data, rows |-> rows,
     Data_s |-> Data_s, Data_keys |-> Data_keys]
CatalogOf(rows) == Payload("json", "object", "object", "array", rows, <<>>, <<>>)

Returned(ids) == [raised |-> FALSE, exc |-> "", ids |-> ids]
Raised(exc) == [raised |-> TRUE, exc |-> exc, ids |-> <<>>]

\* bool(x) of a parsed JSON value used as a row.
Truthy(row) ==
    CASE row.kind = "array" -> row.fields # <<>>
      [] row.kind = "string" -> row.s # <<>>
      [] row.kind = "number" -> row.n # 0
      [] row.kind = "object" -> row.n # 0
      [] OTHER -> FALSE    \* null

\* A variant of row_step that tests for the suffix without regard to case.
row_step_anycase(row) ==
    LET skip == [raised |-> FALSE, exc |-> "", append |-> FALSE, id |-> <<>>]
        fail(e) == [raised |-> TRUE, exc |-> e, append |-> FALSE, id |-> <<>>]
        keep(id) == [raised |-> FALSE, exc |-> "", append |-> TRUE, id |-> id]
        test(id) == IF endswith(lower(id), lower(STR_PDF_suffix)) THEN keep(id) ELSE skip
    IN  IF ~Truthy(row) THEN skip
        ELSE CASE row.kind = "number" -> fail("TypeError")
               [] row.kind = "object" -> fail("KeyError")
               [] row.kind = "string" -> test(<<row.s[1]>>)
               [] OTHER ->
                    IF row.fields[1].kind = "string"
                    THEN test(row.fields[1].s)
                    ELSE fail("AttributeError")

\* Lines 379-390, one pass of the loop body: the row is skipped, its first
\* field is appended, or an exception leaves the function.
row_step(row) ==
    LET skip == [raised |-> FALSE, exc |-> "", append |-> FALSE, id |-> <<>>]
        fail(e) == [raised |-> TRUE, exc |-> e, append |-> FALSE, id |-> <<>>]
        keep(id) == [raised |-> FALSE, exc |-> "", append |-> TRUE, id |-> id]
        test(id) == IF endswith(id, STR_PDF_suffix) THEN keep(id) ELSE skip
    IN  IF ~Truthy(row) THEN skip                           \* "data_row and ..."
        ELSE CASE row.kind = "number" -> fail("TypeError")  \* len(5)
               [] row.kind = "object" -> fail("KeyError")   \* {"k": ..}[0]
               [] row.kind = "string" -> test(<<row.s[1]>>) \* "abc"[0] = "a"
               [] OTHER ->                                  \* a non-empty array
                    IF row.fields[1].kind = "string"
                    THEN test(row.fields[1].s)
                    ELSE fail("AttributeError")             \* (5).endswith

\* Lines 365-392: the loop over record_data.
RECURSIVE extract_loop(_, _)
extract_loop(record_data, pdf_document_id_list) ==
    IF record_data = <<>> THEN Returned(pdf_document_id_list)
    ELSE LET r == row_step(Head(record_data))
         IN  IF r.raised THEN Raised(r.exc)
             ELSE extract_loop(Tail(record_data),
                               IF r.append THEN Append(pdf_document_id_list, r.id)
                               ELSE pdf_document_id_list)

\* Lines 356-392.
extract_pdf_document_ids(raw_json_input) ==
    LET p == raw_json_input
    IN  IF p.text # "json" THEN Returned(<<>>)               \* JSONDecodeError
        ELSE IF p.top # "object" THEN Raised("AttributeError")  \* no .get
        ELSE IF p.data = "absent" THEN Returned(<<>>)        \* {}.get("Data", [])
        ELSE IF p.data # "object" THEN Raised("AttributeError")
        ELSE CASE p.Data = "absent" -> Returned(<<>>)
               [] p.Data = "array" -> extract_loop(p.rows, <<>>)
               [] p.Data = "string" ->
                    extract_loop([i \in DOMAIN p.Data_s |-> StrRow(<<p.Data_s[i]>>)], <<>>)
               [] p.Data = "object" ->
                    extract_loop([i \in DOMAIN p.Data_keys |-> StrRow(p.Data_keys[i])], <<>>)
               [] OTHER -> Raised("TypeError")               \* not iterable

(***************************************************************************)
(* The network and the file system, as main.py sees them.                  *)
(***************************************************************************)
SeqsUpTo(S, n) == UNION {[1..k -> S] : k \in 0..n}

STR_application_pdf == <<"a", "p", "p", "l", "i", "c", "a", "t", "i", "o", "n",
                         "/", "p", "d", "f">>
STR_text_html == <<"t", "e", "x", "t", "/", "h", "t", "m", "l">>
STR_Login == <<"L", "o", "g", "i", "n">>
STR_access_denied == <<"a", "c", "c", "e", "s", "s", " ", "d", "e", "n", "i",
                       "e", "d">>
output_dir == "PDFs"

\* Values of the Content-Type header a server may send ("" when it sends none:
\* headers.get("Content-Type", "")).
ContentTypes ==
    { STR_application_pdf,
      STR_application_pdf \o <<";", "q", "=", "1">>,
      STR_text_html,
      STR_text_html \o <<";", "x", "=">> \o STR_application_pdf,
      <<"A", "p", "p", "l", "i", "c", "a", "t", "i", "o", "n", "/", "P", "D", "F">>,
      <<>> }
\* Bodies of a response that is read whole (response.content, decoded).
Bodies ==
    { <<>>, STR_Login, lower(STR_Login),
      <<"A", "c", "c", "e", "s", "s", " ", "D", "e", "n", "i", "e", "d">>,
      <<"<", "p", ">">> }
\* Chunks iter_content may yield.
ChunkPool == { <<>>, <<"a">> }
\* Status codes of a response; raise_for_status raises for 400..599.
OkStatuses == {200, 304}
ErrorStatuses == {401, 403, 404, 500}
IsHttpError(status) == 400 <= status /\ status < 600
\* Exceptions requests.get raises without a response.
RequestErrors ==
    { [cls |-> "ConnectTimeout", timeout |-> TRUE],
      [cls |-> "ReadTimeout", timeout |-> TRUE],
      [cls |-> "ConnectionError", timeout |-> FALSE] }
\* Exceptions raised while a body is read (iter_content, response.content): a
\* read timeout surfaces there as requests' ConnectionError.
StreamErrors ==
    { [cls |-> "ChunkedEncodingError", timeout |-> FALSE],
      [cls |-> "ConnectionError", timeout |-> FALSE],
      [cls |-> "ConnectionError", timeout |-> TRUE] }
NoException == [cls |-> "", timeout |-> FALSE]
\* fetch_json_data caught nothing (yet).
NoFetchException == [e |-> NoException, status |-> 0]

\* Identifiers of the catalogs of a run.
IdPool ==
    { <<"A">> \o STR_PDF_suffix,
      <<"A", " ", "B">> \o STR_PDF_suffix,
      <<"A", "/", "B">> \o STR_PDF_suffix }

NoResponse == [state |-> "none", status |-> 0, ctype |-> <<>>,
               body_read |-> FALSE, body |-> <<>>, eof |-> FALSE]
NoPath == <<output_dir, <<>>>>

\* os.path.join(destination_directory, clean_filename); a clean filename holds
\* no separator.
os_path_join(directory, name) == <<directory, name>>

\* A variant of file_exists that never finds the file.
file_exists_never(path) == FALSE

\* Lines 395-398: os.path.isfile.
file_exists(path) == path \in DOMAIN store

\* Lines 244-254: the local path download_pdf computes for an identifier.
path_of(pdf_id) ==
    os_path_join(output_dir, url_to_filename(pdf_base_url \o pdf_id))

\* The store with the file at path created or truncated (open(path, "wb")),
\* appended to (write), removed (os.remove).
Created(st, path) == [q \in DOMAIN st \cup {path} |-> IF q = path THEN <<>> ELSE st[q]]
\* A write through an open handle; if the file was unlinked meanwhile the bytes
\* go to the unlinked file and the directory keeps no entry.
Written(st, path, chunk) ==
    IF path \in DOMAIN st THEN [st EXCEPT ![path] = @ \o chunk] ELSE st
Removed(st, path) == [q \in DOMAIN st \ {path} |-> st[q]]

\* A variant of HasDeniedMarker that compares without lowering the body.
HasDeniedMarkerNoLower(html_content) ==
    Contains(html_content, STR_Login)
        \/ Contains(html_content, STR_access_denied)

\* Line 293: the test for a login or access-denied page.
HasDeniedMarker(html_content) ==
    Contains(html_content, STR_Login)
        \/ Contains(lower(html_content), STR_access_denied)

\* Lines 327-339: the log written for a caught RequestException.
RequestExceptionLog(e) ==
    IF e.cls = "ReadTimeout" THEN "TimeoutError" ELSE "NetworkError"

(***************************************************************************)
(* main(), src/main.py lines 436-504, up to the download loop.             *)
(***************************************************************************)
NoData == [none |-> TRUE, p |-> Payload("empty", "null", "absent", "absent", <<>>, <<>>, <<>>)]
Data(p) == [none |-> FALSE, p |-> p]

otherVars == <<nameVars, extractVars, sweepVars>>
callVars == <<calls, full_path, store_before, reqs_before, response,
              bytes_written, chunks_read, outcome, caught>>
netVars == <<dl_requests, open_responses>>

\* Catalogs the endpoint may answer with: well-formed ones listing identifiers
\* of IdPool, and a few that are empty, not JSON or of another shape.
RunPayloads ==
    { CatalogOf([i \in DOMAIN ids |-> ArrayRow(<<StrField(ids[i])>>)]) :
        ids \in SeqsUpTo(IdPool, MaxIds) }
    \cup { Payload("empty", "null", "absent", "absent", <<>>, <<>>, <<>>),
           Payload("garbage", "null", "absent", "absent", <<>>, <<>>, <<>>),
           Payload("json", "array", "absent", "absent", <<>>, <<>>, <<>>),
           Payload("json", "object", "absent", "absent", <<>>, <<>>, <<>>),
           Payload("json", "object", "object", "null", <<>>, <<>>, <<>>) }

\* A variant of SessionFails in which main does not return.
SessionFailsContinues ==
    /\ pc = "session"
    /\ session_result' = "None"
    /\ pc' = "fetch"
    /\ UNCHANGED <<exit_reason, store, store0, fetch_log, fetch_exc, raw_data, pdf_ids, idx,
                   callVars, netVars, otherVars>>

\* Lines 446-451: start_browser_and_get_auth_cookies returned None (the browser
\* failed, or it collected no cookie): main returns.
SessionFails ==
    /\ pc = "session"
    /\ session_result' = "None"
    /\ pc' = "done"
    /\ exit_reason' = "session"
    /\ UNCHANGED <<store, store0, fetch_log, fetch_exc, raw_data, pdf_ids, idx, callVars,
                   netVars, otherVars>>

\* Lines 446-464: the session is established, the cookie string is kept.
SessionOk ==
    /\ pc = "session"
    /\ session_result' = "cookies"
    /\ pc' = "fetch"
    /\ UNCHANGED <<exit_reason, store, store0, fetch_log, fetch_exc, raw_data, pdf_ids, idx,
                   callVars, netVars, otherVars>>

\* Lines 213-234: the log fetch_json_data writes for a caught exception; status
\* is that of the response, 0 when there is none.
FetchExceptionLog(e, status) ==
    IF status \in {401, 403} THEN "AuthError"
    ELSE IF e.cls = "ReadTimeout" THEN "TimeoutError"
    ELSE "NetworkError"

\* Lines 466-472 with 206-234: requests.get raises, or the status is an error
\* one; fetch_json_data returns None and main returns.
FetchFails ==
    /\ pc = "fetch"
    /\ \/ \E e \in RequestErrors :
            /\ fetch_log' = FetchExceptionLog(e, 0)
            /\ fetch_exc' = [e |-> e, status |-> 0]
       \/ \E status \in ErrorStatuses :
            LET e == [cls |-> "HTTPError", timeout |-> FALSE]
            IN  /\ fetch_log' = FetchExceptionLog(e, status)
                /\ fetch_exc' = [e |-> e, status |-> status]
    /\ raw_data' = NoData
    /\ pc' = "done"
    /\ exit_reason' = "fetch"
    /\ UNCHANGED <<store, store0, pdf_ids, idx, callVars, netVars, session_result, otherVars>>

\* Lines 466-472 with 206-211: the response text is returned; main returns if
\* it is empty ("if not raw_data").
FetchReturns ==
    /\ pc = "fetch"
    /\ \E p \in RunPayloads :
        /\ raw_data' = Data(p)
        /\ IF p.text = "empty"
           THEN pc' = "done" /\ exit_reason' = "fetch"
           ELSE pc' = "extract" /\ UNCHANGED exit_reason
    /\ fetch_log' = "ok"
    /\ UNCHANGED <<store, store0, fetch_exc, pdf_ids, idx, callVars, netVars, session_result,
                   otherVars>>

\* Lines 474-486: extraction; an exception leaves main through its finally
\* block, an empty list makes main return.
ExtractIds ==
    /\ pc = "extract"
    /\ LET r == extract_pdf_document_ids(raw_data.p)
       IN  IF r.raised
           THEN pc' = "crashed" /\ exit_reason' = r.exc /\ UNCHANGED <<pdf_ids, idx>>
           ELSE IF r.ids = <<>>
           THEN pc' = "done" /\ exit_reason' = "no-ids" /\ UNCHANGED <<pdf_ids, idx>>
           ELSE pc' = "loop" /\ pdf_ids' = r.ids /\ idx' = 1 /\ UNCHANGED exit_reason
    /\ UNCHANGED <<store, store0, fetch_log, fetch_exc, raw_data, callVars, netVars, session_result, otherVars>>

(***************************************************************************)
(* The download loop, lines 488-496, and download_pdf, lines 240-347.      *)
(***************************************************************************)
runVars == <<exit_reason, store0, fetch_log, fetch_exc, raw_data, pdf_ids>>
histVars == <<calls, full_path, store_before, reqs_before>>

\* bool(response): requests' Response is true when its status is below 400.
response_truthy(r) == r.state # "none" /\ ~IsHttpError(r.status)

\* Lines 344-347: the finally block.
AfterFinally(r) == IF response_truthy(r) THEN [r EXCEPT !.state = "closed"] ELSE r
OpenAfterFinally(r, n) == IF response_truthy(r) /\ r.state = "open" THEN n - 1 ELSE n

\* download_pdf returns to the loop of main, which goes on with the next one.
ReturnToLoop ==
    /\ pc' = "loop"
    /\ idx' = idx + 1

\* Line 489 and lines 244-260: the next identifier is taken, its path is
\* computed, and the call returns at once if a file is there.
DlCall ==
    /\ pc = "loop"
    /\ idx <= Len(pdf_ids)
    /\ LET path == path_of(pdf_ids[idx])
       IN  /\ full_path' = path
           /\ calls' = Append(calls, [id |-> pdf_ids[idx], path |-> path])
           /\ IF file_exists(path)
              THEN outcome' = "Skipped" /\ ReturnToLoop
              ELSE outcome' = "" /\ pc' = "request" /\ UNCHANGED idx
    /\ store_before' = store
    /\ reqs_before' = dl_requests
    /\ response' = NoResponse
    /\ bytes_written' = 0
    /\ chunks_read' = 0
    /\ caught' = NoException
    /\ UNCHANGED <<store, runVars, netVars, session_result, otherVars>>

\* Lines 494-496: the loop is over.
MainDone ==
    /\ pc = "loop"
    /\ idx > Len(pdf_ids)
    /\ pc' = "done"
    /\ exit_reason' = "completed"
    /\ UNCHANGED <<store, store0, fetch_log, fetch_exc, raw_data, pdf_ids, idx, callVars,
                   netVars, session_result, otherVars>>

\* Lines 274-279 and 327-339: requests.get raises (no response).
DlRequestRaises ==
    /\ pc = "request"
    /\ \E e \in RequestErrors :
        /\ caught' = e
        /\ outcome' = RequestExceptionLog(e)
    /\ dl_requests' = dl_requests + 1
    /\ ReturnToLoop
    /\ UNCHANGED <<store, runVars, histVars, response, bytes_written, chunks_read,
                   open_responses, session_result, otherVars>>

\* Lines 274-280 and 327-347: a response with an error status; raise_for_status
\* raises HTTPError.
DlRequestHttpError ==
    /\ pc = "request"
    /\ \E status \in ErrorStatuses :
        LET r == [NoResponse EXCEPT !.state = "open", !.status = status]
        IN  /\ response' = AfterFinally(r)
            /\ open_responses' = OpenAfterFinally(r, open_responses + 1)
    /\ caught' = [cls |-> "HTTPError", timeout |-> FALSE]
    /\ outcome' = RequestExceptionLog(caught')
    /\ dl_requests' = dl_requests + 1
    /\ ReturnToLoop
    /\ UNCHANGED <<store, runVars, histVars, bytes_written, chunks_read, session_result, otherVars>>

\* Lines 274-284: a response whose status raise_for_status lets through, with
\* its Content-Type header.
DlRequestResponds ==
    /\ pc = "request"
    /\ \E status \in OkStatuses, ctype \in ContentTypes :
        response' = [NoResponse EXCEPT !.state = "open", !.status = status,
                                       !.ctype = ctype]
    /\ dl_requests' = dl_requests + 1
    /\ open_responses' = open_responses + 1
    /\ pc' = "headers"
    /\ UNCHANGED <<store, runVars, histVars, idx, bytes_written, chunks_read,
                   outcome, caught, session_result, otherVars>>

\* Line 287: the test of the Content-Type header.
is_pdf_content_type(content_type_header) ==
    Contains(content_type_header, STR_application_pdf)

\* Lines 286-303: not a PDF; the body is read whole and searched.
DlNotPdf ==
    /\ pc = "headers"
    /\ ~is_pdf_content_type(response.ctype)
    /\ \E html_content \in Bodies :
        /\ response' = AfterFinally([response EXCEPT !.body_read = TRUE,
                                                     !.body = html_content,
                                                     !.eof = TRUE])
        /\ outcome' = IF HasDeniedMarker(html_content) THEN "AuthDenied"
                      ELSE "UnexpectedContentType"
    /\ open_responses' = OpenAfterFinally(response, open_responses)
    /\ ReturnToLoop
    /\ UNCHANGED <<store, runVars, histVars, bytes_written, chunks_read, caught,
                   dl_requests, session_result, otherVars>>

\* Lines 289 and 327-339: reading the body of the non-PDF response fails.
DlNotPdfReadRaises ==
    /\ pc = "headers"
    /\ ~is_pdf_content_type(response.ctype)
    /\ \E e \in StreamErrors :
        /\ caught' = e
        /\ outcome' = RequestExceptionLog(e)
    /\ response' = AfterFinally(response)
    /\ open_responses' = OpenAfterFinally(response, open_responses)
    /\ ReturnToLoop
    /\ UNCHANGED <<store, runVars, histVars, bytes_written, chunks_read,
                   dl_requests, session_result, otherVars>>

\* Lines 305-308: the target file is created empty.
DlOpenFile ==
    /\ pc = "headers"
    /\ is_pdf_content_type(response.ctype)
    /\ store' = Created(store, full_path)
    /\ pc' = "stream"
    /\ UNCHANGED <<runVars, histVars, idx, response, bytes_written, chunks_read,
                   outcome, caught, netVars, session_result, otherVars>>

\* Lines 305 and 340-343: open() raises (OSError): nothing is created.
DlOpenFails ==
    /\ pc = "headers"
    /\ is_pdf_content_type(response.ctype)
    /\ caught' = [cls |-> "OSError", timeout |-> FALSE]
    /\ outcome' = "FileSystemError"
    /\ response' = AfterFinally(response)
    /\ open_responses' = OpenAfterFinally(response, open_responses)
    /\ ReturnToLoop
    /\ UNCHANGED <<store, runVars, histVars, bytes_written, chunks_read,
                   dl_requests, session_result, otherVars>>

\* Lines 309-314: one chunk is yielded; it is written unless it is empty.
DlChunk ==
    /\ pc = "stream"
    /\ chunks_read < MaxChunks
    /\ \E chunk \in ChunkPool :
        IF chunk # <<>>
        THEN /\ store' = Written(store, full_path, chunk)
             /\ bytes_written' = bytes_written + Len(chunk)
        ELSE UNCHANGED <<store, bytes_written>>
    /\ chunks_read' = chunks_read + 1
    /\ UNCHANGED <<pc, runVars, histVars, idx, response, outcome, caught, netVars,
                   session_result, otherVars>>

\* Lines 313 and 340-343: writing a chunk raises (OSError); the file stays as
\* it is.
DlWriteFails ==
    /\ pc = "stream"
    /\ chunks_read < MaxChunks
    /\ caught' = [cls |-> "OSError", timeout |-> FALSE]
    /\ outcome' = "FileSystemError"
    /\ chunks_read' = chunks_read + 1
    /\ response' = AfterFinally(response)
    /\ open_responses' = OpenAfterFinally(response, open_responses)
    /\ ReturnToLoop
    /\ UNCHANGED <<store, runVars, histVars, bytes_written, dl_requests, session_result, otherVars>>

\* A variant of DlStreamRaises in which the exception is not caught and leaves
\* main.
DlStreamRaisesUncaught ==
    /\ pc = "stream"
    /\ \E e \in StreamErrors :
        /\ caught' = e
        /\ outcome' = "uncaught"
    /\ response' = AfterFinally(response)
    /\ open_responses' = OpenAfterFinally(response, open_responses)
    /\ pc' = "crashed"
    /\ exit_reason' = "uncaught"
    /\ UNCHANGED <<store, store0, fetch_log, fetch_exc, raw_data, pdf_ids, idx, histVars,
                   bytes_written, chunks_read, dl_requests, session_result,
                   otherVars>>

\* Lines 309 and 327-339: iter_content raises while the file is open; the file
\* is closed by the with block and stays.
DlStreamRaises ==
    /\ pc = "stream"
    /\ \E e \in StreamErrors :
        /\ caught' = e
        /\ outcome' = RequestExceptionLog(e)
    /\ response' = AfterFinally(response)
    /\ open_responses' = OpenAfterFinally(response, open_responses)
    /\ ReturnToLoop
    /\ UNCHANGED <<store, runVars, histVars, bytes_written, chunks_read,
                   dl_requests, session_result, otherVars>>

\* A variant of DlStreamEnd that keeps the empty file.
DlStreamEndKeepsEmpty ==
    /\ pc = "stream"
    /\ outcome' = IF bytes_written = 0 THEN "EmptyDownload" ELSE "Downloaded"
    /\ response' = AfterFinally([response EXCEPT !.eof = TRUE])
    /\ open_responses' = OpenAfterFinally(response, open_responses)
    /\ ReturnToLoop
    /\ UNCHANGED <<store, runVars, histVars, bytes_written, chunks_read, caught,
                   dl_requests, session_result, otherVars>>

\* Lines 309-325: the body is exhausted; a file of 0 bytes is removed.
DlStreamEnd ==
    /\ pc = "stream"
    /\ IF bytes_written = 0
       THEN store' = Removed(store, full_path) /\ outcome' = "EmptyDownload"
       ELSE UNCHANGED store /\ outcome' = "Downloaded"
    /\ response' = AfterFinally([response EXCEPT !.eof = TRUE])
    /\ open_responses' = OpenAfterFinally(response, open_responses)
    /\ ReturnToLoop
    /\ UNCHANGED <<runVars, histVars, bytes_written, chunks_read, caught,
                   dl_requests, session_result, otherVars>>

(***************************************************************************)
(* The run of main.py.                                                     *)
(***************************************************************************)
OldContent == <<"o", "l", "d">>
\* The destination directory before the run: empty, or holding one file left
\* by an earlier run under the name of some identifier.
InitialStores ==
    { [q \in S |-> OldContent] : S \in {{}} \cup {{path_of(id)} : id \in IdPool} }

NameIdle ==
    /\ n_pc = "idle"
    /\ n_url = <<>>
    /\ n_safe_name = <<>>
    /\ n_result = <<>>

ExtractIdle ==
    /\ x_pc = "idle"
    /\ x_payload = NoData.p
    /\ x_result = Returned(<<>>)

SweepIdle ==
    /\ v_pc = "idle"
    /\ cpu_count = 0
    /\ MAX_WORKERS = 0
    /\ pdf_file_paths = {}
    /\ task = <<>>
    /\ v_store = <<>>

PipeStart(st) ==
    /\ session_result = ""
    /\ exit_reason = ""
    /\ store = st
    /\ store0 = st
    /\ fetch_log = ""
    /\ fetch_exc = NoFetchException
    /\ raw_data = NoData
    /\ pdf_ids = <<>>
    /\ idx = 0
    /\ calls = <<>>
    /\ full_path = NoPath
    /\ store_before = st
    /\ reqs_before = 0
    /\ response = NoResponse
    /\ bytes_written = 0
    /\ chunks_read = 0
    /\ outcome = ""
    /\ caught = NoException
    /\ dl_requests = 0
    /\ open_responses = 0

Init ==
    /\ pc = "session"
    /\ \E st \in InitialStores : PipeStart(st)
    /\ NameIdle
    /\ ExtractIdle
    /\ SweepIdle

Next ==
    \/ SessionFails
    \/ SessionOk
    \/ FetchFails
    \/ FetchReturns
    \/ ExtractIds
    \/ DlCall
    \/ MainDone
    \/ DlRequestRaises
    \/ DlRequestHttpError
    \/ DlRequestResponds
    \/ DlNotPdf
    \/ DlNotPdfReadRaises
    \/ DlOpenFile
    \/ DlOpenFails
    \/ DlChunk
    \/ DlWriteFails
    \/ DlStreamRaises
    \/ DlStreamEnd

Spec == Init /\ [][Next]_vars

(***************************************************************************)
(* url_to_filename applied to one URL.                                     *)
(***************************************************************************)
NameAlphabet == {"A", " ", "/", "&", ".", "U+00E9", "\n"}
NameEndings == { <<>>, STR_PDF_suffix, STR_dot_pdf, <<".", "P", "D", "F">> }
\* What a value may start with: nothing, or a name with an upper-case extension.
NameHeads == { <<>>, <<"A", ".", "P", "D", "F">> }
ContentValues ==
    { h \o v \o e :
        h \in NameHeads, v \in SeqsUpTo(NameAlphabet, MaxNameLen), e \in NameEndings }
start_url == <<"h", "t", "t", "p", "s", ":", "/", "/", "s", "d", "s", ".", "d",
               "i", "v", "e", "r", "s", "e", "y", ".", "c", "o", "m", "/">>
\* URLs with a content= parameter (those download_pdf builds), and two without.
NameUrls ==
    { pdf_base_url \o v : v \in ContentValues }
    \cup { start_url, start_url \o <<"?", "i", "d", "=", "A">> \o STR_PDF_suffix }

NameInit ==
    /\ n_pc = "ready"
    /\ n_url \in NameUrls
    /\ n_safe_name = <<>>
    /\ n_result = <<>>
    /\ pc = "idle"
    /\ PipeStart(<<>>)
    /\ ExtractIdle
    /\ SweepIdle

\* One call of url_to_filename; n_safe_name is its local variable safe_name
\* after line 424, n_result what it returns.
NameApply ==
    /\ n_pc = "ready"
    /\ n_safe_name' = safe_name_of(n_url)
    /\ n_result' = url_to_filename(n_url)
    /\ n_pc' = "done"
    /\ UNCHANGED <<n_url, pipeVars, extractVars, sweepVars>>

NameNext == NameApply

SpecName == NameInit /\ [][NameNext]_vars

(***************************************************************************)
(* extract_pdf_document_ids applied to one payload.                        *)
(***************************************************************************)
ExtractStrings ==
    { <<"A">> \o STR_PDF_suffix, <<"B">> \o STR_PDF_suffix,
      <<"X", "_", "D", "O", "C">>, STR_PDF_suffix, <<"A", "_", "p", "d", "f">>,
      <<>> }
FirstFields ==
    { StrField(f) : f \in ExtractStrings }
    \cup { Field("number", <<>>), Field("null", <<>>) }
\* Rows that are arrays: empty, or a first field followed by further fields.
ArrayRows ==
    { ArrayRow(<<>>) }
    \cup { ArrayRow(<<f>> \o [i \in 1..k |-> StrField(<<"x">>)]) :
             f \in FirstFields, k \in 0..(MaxFields - 1) }
\* Rows that are other JSON values.
OtherRows ==
    { Row("null", <<>>, <<>>, 0), Row("number", <<>>, <<>>, 0),
      Row("number", <<>>, <<>>, 5), StrRow(<<>>), StrRow(<<"A">> \o STR_PDF_suffix),
      Row("object", <<>>, <<>>, 0), Row("object", <<>>, <<>>, 1) }
ExtractPayloads ==
    { CatalogOf(rows) : rows \in SeqsUpTo(ArrayRows \cup OtherRows, MaxRows) }
    \cup { Payload(text, "null", "absent", "absent", <<>>, <<>>, <<>>) :
             text \in {"empty", "garbage"} }
    \cup { Payload("json", top, "absent", "absent", <<>>, <<>>, <<>>) :
             top \in {"object", "array", "string", "number", "null"} }
    \cup { Payload("json", "object", data, "absent", <<>>, <<>>, <<>>) :
             data \in {"object", "array", "string", "number", "null"} }
    \cup { Payload("json", "object", "object", Dk, <<>>, <<>>, <<>>) :
             Dk \in {"number", "null"} }
    \cup { Payload("json", "object", "object", "string", <<>>, ds, <<>>) :
             ds \in {<<>>, <<"A">> \o STR_PDF_suffix} }
    \cup { Payload("json", "object", "object", "object", <<>>, <<>>, keys) :
             keys \in {<<>>, << <<>> >>, << <<"A">> \o STR_PDF_suffix >>} }

ExtractInit ==
    /\ x_pc = "ready"
    /\ x_payload \in ExtractPayloads
    /\ x_result = Returned(<<>>)
    /\ pc = "idle"
    /\ PipeStart(<<>>)
    /\ NameIdle
    /\ SweepIdle

\* One call of extract_pdf_document_ids.
ExtractApply ==
    /\ x_pc = "ready"
    /\ x_result' = extract_pdf_document_ids(x_payload)
    /\ x_pc' = "done"
    /\ UNCHANGED <<x_payload, pipeVars, nameVars, sweepVars>>

ExtractNext == ExtractApply

SpecExtract == ExtractInit /\ [][ExtractNext]_vars

(***************************************************************************)
(* The validation sweep, src/pdf_validator.py.                             *)
(***************************************************************************)
\* Line 206: "./PDFs", resolved against the working directory, is the
\* directory main.py names "PDFs"; the sweep lists the same store.
search_directory == output_dir
\* Line 209.
target_extension == STR_dot_pdf
\* Line 213: the right operand of "os.cpu_count() or 4".
DefaultWorkers == 4
\* os.cpu_count(): a positive count, or None, written 0.
CpuCounts == 0..MaxCpu

\* Lines 97-100: the extension gets a leading dot if it has none.
normalize_extension(file_extension) ==
    IF Len(file_extension) > 0 /\ file_extension[1] = "."
    THEN file_extension
    ELSE <<".">> \o file_extension

\* Lines 93-142: the paths under the root whose file name ends with the
\* extension (str.endswith, case-sensitive); the order of the list is that of
\* os.walk and plays no role, so the result is a set.
walk_directory_and_extract_given_file_extension(fs, root_directory_path, file_extension) ==
    { p \in DOMAIN fs :
        /\ p[1] = root_directory_path
        /\ endswith(p[2], normalize_extension(file_extension)) }

\* What fitz.open and page_count can do for a path: a missing file raises
\* (PyMuPDF's own FileNotFoundError is a RuntimeError; the built-in one is
\* handled too), an empty file cannot be opened, any other file is judged by
\* its bytes, which the model leaves open.
fitz_open(fs, file_path) ==
    IF file_path \notin DOMAIN fs THEN {"RuntimeError", "FileNotFoundError"}
    ELSE IF fs[file_path] = <<>> THEN {"RuntimeError", "Exception"}
    ELSE {"pages", "no_pages", "RuntimeError", "Exception"}

\* A variant of validate_pdf_file without its last handler: an exception that
\* is neither RuntimeError nor FileNotFoundError leaves the function.
validate_pdf_file_reraising(event) ==
    CASE event = "pages" -> [ret |-> TRUE, raised |-> FALSE, log |-> "Valid"]
      [] event = "no_pages" -> [ret |-> FALSE, raised |-> FALSE, log |-> "InvalidNoPages"]
      [] event = "RuntimeError" -> [ret |-> FALSE, raised |-> FALSE, log |-> "Corrupt"]
      [] event = "FileNotFoundError" -> [ret |-> FALSE, raised |-> FALSE, log |-> "NotFound"]
      [] OTHER -> [ret |-> FALSE, raised |-> TRUE, log |-> ""]

\* Lines 16-52: what validate_pdf_file returns and logs for what the engine did.
validate_pdf_file(event) ==
    CASE event = "pages" -> [ret |-> TRUE, raised |-> FALSE, log |-> "Valid"]
      [] event = "no_pages" -> [ret |-> FALSE, raised |-> FALSE, log |-> "InvalidNoPages"]
      [] event = "RuntimeError" -> [ret |-> FALSE, raised |-> FALSE, log |-> "Corrupt"]
      [] event = "FileNotFoundError" -> [ret |-> FALSE, raised |-> FALSE, log |-> "NotFound"]
      [] OTHER -> [ret |-> FALSE, raised |-> FALSE, log |-> "Unexpected"]

\* What os.remove can do for an existing file.
RemoveEvents == {"ok", "PermissionError", "OSError"}

\* Lines 61-83: remove_system_file; os_event is what os.remove does when the
\* path exists.  The result carries the store the call leaves.
remove_system_file(fs, system_path, os_event) ==
    IF system_path \notin DOMAIN fs
    THEN [ret |-> FALSE, raised |-> FALSE, log |-> "not_found", fs |-> fs]
    ELSE CASE os_event = "ok" ->
                [ret |-> TRUE, raised |-> FALSE, log |-> "removed", fs |-> Removed(fs, system_path)]
           [] os_event = "PermissionError" ->
                [ret |-> FALSE, raised |-> FALSE, log |-> "permission", fs |-> fs]
           [] OTHER ->
                [ret |-> FALSE, raised |-> FALSE, log |-> "error", fs |-> fs]

\* A process_pdf_file task: its stage, what the engine did, what
\* validate_pdf_file returned and logged, what remove_system_file logged, and
\* whether an exception left the task.
QueuedTask ==
    [stage |-> "queued", event |-> "", ret |-> FALSE, log |-> "", removal |-> "",
     raised |-> FALSE]
Running == { p \in DOMAIN task : task[p].stage \in {"validate", "remove"} }

\* Lines 212-214: os.cpu_count() or 4.
max_workers_of(n) == IF n = 0 THEN DefaultWorkers ELSE n

\* Lines 206-232: the walk finds no file with the extension; main returns.
SweepNoFiles ==
    /\ v_pc = "start"
    /\ walk_directory_and_extract_given_file_extension(store, search_directory, target_extension) = {}
    /\ \E n \in CpuCounts :
        /\ cpu_count' = n
        /\ MAX_WORKERS' = max_workers_of(n)
    /\ v_store' = store
    /\ v_pc' = "no_files"
    /\ UNCHANGED <<pdf_file_paths, task, pipeVars, nameVars, extractVars>>

\* Lines 206-248: the pool size is computed, the walk lists the directory,
\* and executor.map submits one task per path, all of them at once.
SweepDispatch ==
    /\ v_pc = "start"
    /\ LET found == walk_directory_and_extract_given_file_extension(
                        store, search_directory, target_extension)
       IN  /\ found # {}
           /\ pdf_file_paths' = found
           /\ task' = [p \in found |-> QueuedTask]
    /\ \E n \in CpuCounts :
        /\ cpu_count' = n
        /\ MAX_WORKERS' = max_workers_of(n)
    /\ v_store' = store
    /\ v_pc' = "pool"
    /\ UNCHANGED <<pipeVars, nameVars, extractVars>>

\* A variant of TaskStart that ignores the size of the pool.
TaskStartUnbounded(p) ==
    /\ v_pc = "pool"
    /\ task[p].stage = "queued"
    /\ task' = [task EXCEPT ![p].stage = "validate"]
    /\ UNCHANGED <<v_pc, cpu_count, MAX_WORKERS, pdf_file_paths, v_store,
                   pipeVars, nameVars, extractVars>>

\* ThreadPoolExecutor, lines 241-243: a thread of the pool takes a queued
\* task; there are at most max_workers threads.  Lines 176-181.
TaskStart(p) ==
    /\ v_pc = "pool"
    /\ task[p].stage = "queued"
    /\ Cardinality(Running) < MAX_WORKERS
    /\ task' = [task EXCEPT ![p].stage = "validate"]
    /\ UNCHANGED <<v_pc, cpu_count, MAX_WORKERS, pdf_file_paths, v_store,
                   pipeVars, nameVars, extractVars>>

\* A variant of TaskValidate that goes on to delete whatever it validated.
TaskValidateAlwaysRemoves(p) ==
    /\ v_pc = "pool"
    /\ task[p].stage = "validate"
    /\ \E event \in fitz_open(store, p) :
        LET v == validate_pdf_file(event)
        IN  task' = [task EXCEPT ![p] =
                        [stage |-> "remove",
                         event |-> event, ret |-> v.ret, log |-> v.log,
                         removal |-> "", raised |-> v.raised]]
    /\ UNCHANGED <<v_pc, cpu_count, MAX_WORKERS, pdf_file_paths, v_store,
                   pipeVars, nameVars, extractVars>>

\* Lines 184-186 with 16-52: the task validates its file; a valid file ends
\* the task, an invalid one sends it on to the deletion.
TaskValidate(p) ==
    /\ v_pc = "pool"
    /\ task[p].stage = "validate"
    /\ \E event \in fitz_open(store, p) :
        LET v == validate_pdf_file(event)
        IN  task' = [task EXCEPT ![p] =
                        [stage |-> IF v.raised \/ v.ret THEN "done" ELSE "remove",
                         event |-> event, ret |-> v.ret, log |-> v.log,
                         removal |-> "", raised |-> v.raised]]
    /\ UNCHANGED <<v_pc, cpu_count, MAX_WORKERS, pdf_file_paths, v_store,
                   pipeVars, nameVars, extractVars>>

\* Lines 187-194 with 61-83: the task deletes the file it found invalid.
TaskRemove(p) ==
    /\ v_pc = "pool"
    /\ task[p].stage = "remove"
    /\ \E os_event \in RemoveEvents :
        LET r == remove_system_file(store, p, os_event)
        IN  /\ store' = r.fs
            /\ task' = [task EXCEPT ![p].stage = "done", ![p].removal = r.log,
                                    ![p].raised = r.raised]
    /\ UNCHANGED <<v_pc, cpu_count, MAX_WORKERS, pdf_file_paths, v_store,
                   pc, session_result, exit_reason, store0, fetch_log, fetch_exc, raw_data,
                   pdf_ids, idx, callVars, netVars, nameVars, extractVars>>

\* A variant of SweepReturn that does not wait for the tasks.
SweepReturnNoWait ==
    /\ v_pc = "pool"
    /\ v_pc' = "complete"
    /\ UNCHANGED <<cpu_count, MAX_WORKERS, pdf_file_paths, task, v_store,
                   pipeVars, nameVars, extractVars>>

\* Lines 241-251: leaving the with block is shutdown(wait=True), which
\* returns when every submitted task has ended; main then reports completion.
SweepReturn ==
    /\ v_pc = "pool"
    /\ \A p \in DOMAIN task : task[p].stage = "done"
    /\ v_pc' = "complete"
    /\ UNCHANGED <<cpu_count, MAX_WORKERS, pdf_file_paths, task, v_store,
                   pipeVars, nameVars, extractVars>>

\* Directories the sweep may find: files of a name pool, each with the
\* content the pool gives it; one name has an upper-case extension, one file
\* is empty.
SweepNames ==
    { <<"a">> \o STR_dot_pdf, <<"b">> \o STR_dot_pdf, <<"c">> \o STR_dot_pdf,
      <<"d", ".", "P", "D", "F">> }
SweepContent(name) == IF name[1] = "b" THEN <<>> ELSE OldContent
SweepStores ==
    { [q \in { os_path_join(search_directory, name) : name \in S }
          |-> SweepContent(q[2])] :
        S \in { T \in SUBSET SweepNames : Cardinality(T) <= MaxFiles } }

SweepInit ==
    /\ v_pc = "start"
    /\ cpu_count = 0
    /\ MAX_WORKERS = 0
    /\ pdf_file_paths = {}
    /\ task = <<>>
    /\ v_store = <<>>
    /\ pc = "idle"
    /\ \E st \in SweepStores : PipeStart(st)
    /\ NameIdle
    /\ ExtractIdle

SweepNext ==
    \/ SweepNoFiles
    \/ SweepDispatch
    \/ \E p \in DOMAIN task : TaskStart(p)
    \/ \E p \in DOMAIN task : TaskValidate(p)
    \/ \E p \in DOMAIN task : TaskRemove(p)
    \/ SweepReturn

SpecSweep == SweepInit /\ [][SweepNext]_vars

(***************************************************************************)
(* The download loop of main.py and the sweep of pdf_validator.py over the *)
(* same directory: two programs started independently of each other, so    *)
(* their steps interleave freely.  main.py is taken up at its download     *)
(* loop, the sweep at its start.  A zero-byte download whose file the sweep *)
(* already deleted logs its warning (line 317) before os.remove fails.      *)
(***************************************************************************)
\* The identifier the catalog lists.
BothIds == { <<"A">> \o STR_PDF_suffix }
BothCatalogs == { CatalogOf(<<ArrayRow(<<StrField(id)>>)>>) : id \in BothIds }
\* The directory as the two start: empty, or holding one file of an earlier run.
BothStores ==
    { [q \in S |-> OldContent] :
        S \in {{}, {os_path_join(output_dir, <<"c">> \o STR_dot_pdf)}} }

BothInit ==
    /\ pc = "loop"
    /\ session_result = "cookies"
    /\ exit_reason = ""
    /\ fetch_log = "ok"
    /\ fetch_exc = NoFetchException
    /\ idx = 1
    /\ \E st \in BothStores, catalog \in BothCatalogs :
        /\ store = st
        /\ store0 = st
        /\ store_before = st
        /\ raw_data = Data(catalog)
        /\ pdf_ids = extract_pdf_document_ids(catalog).ids
    /\ calls = <<>>
    /\ full_path = NoPath
    /\ reqs_before = 0
    /\ response = NoResponse
    /\ bytes_written = 0
    /\ chunks_read = 0
    /\ outcome = ""
    /\ caught = NoException
    /\ dl_requests = 0
    /\ open_responses = 0
    /\ v_pc = "start"
    /\ cpu_count = 0
    /\ MAX_WORKERS = 0
    /\ pdf_file_paths = {}
    /\ task = <<>>
    /\ v_store = <<>>
    /\ NameIdle
    /\ ExtractIdle

BothNext ==
    \/ DlCall
    \/ MainDone
    \/ DlRequestRaises
    \/ DlRequestHttpError
    \/ DlRequestResponds
    \/ DlNotPdf
    \/ DlNotPdfReadRaises
    \/ DlOpenFile
    \/ DlOpenFails
    \/ DlChunk
    \/ DlWriteFails
    \/ DlStreamRaises
    \/ DlStreamEnd
    \/ SweepNoFiles
    \/ SweepDispatch
    \/ \E p \in DOMAIN task : TaskStart(p)
    \/ \E p \in DOMAIN task : TaskValidate(p)
    \/ \E p \in DOMAIN task : TaskRemove(p)
    \/ SweepReturn

SpecBoth == BothInit /\ [][BothNext]_vars

(***************************************************************************)
(* Properties.                                                             *)
(***************************************************************************)
Returned_from_call == pc \in {"loop", "done"} /\ calls # <<>>
Is2xx(status) == 200 <= status /\ status < 300
\* t occurs in s.
OccursIn(s, t) ==
    \E i \in 1..(Len(s) - Len(t) + 1) : SubSeq(s, i, i + Len(t) - 1) = t

\* C1: when a file exists at the computed path as download_pdf is called, the
\* call issues no network request and leaves the store (the file's existence
\* and contents) as it was.
C1_SkipIsInert ==
    (calls # <<>> /\ full_path \in DOMAIN store_before)
        => /\ dl_requests = reqs_before
           /\ store = store_before
           /\ pc \in {"loop", "done"}
\* A second call for an identifier whose first call wrote the file.
C1_Witness ==
    /\ pc = "loop"
    /\ Len(calls) = 2
    /\ calls[1].id = calls[2].id
    /\ full_path \notin DOMAIN store0
    /\ full_path \in DOMAIN store_before
    /\ outcome = "Skipped"

\* C2: a download_pdf call that starts with no file at the target path and ends
\* in a non-2xx status, a transport error or a timeout leaves no file at the
\* target path.
C2_NoFileOnNetworkFailure ==
    (/\ Returned_from_call
     /\ full_path \notin DOMAIN store_before
     /\ \/ caught.cls \in {"ConnectTimeout", "ReadTimeout", "ConnectionError",
                           "ChunkedEncodingError", "HTTPError"}
        \/ (response.state # "none" /\ ~Is2xx(response.status)))
        => full_path \notin DOMAIN store

MediaType(ctype) == lower(strip(SubSeq(ctype, 1, PrefixLen(ctype, {";"}))))
\* The markers of a login or access-denied page, whatever the case of
\* "access denied".
MarkerIn(body) ==
    OccursIn(body, STR_Login) \/ OccursIn(lower(body), STR_access_denied)

\* C4 as stated: a 2xx response whose Content-Type is not application/pdf ends
\* in AuthDenied when the body holds a login or access-denied marker and in
\* UnexpectedContentType otherwise, and no file is created.
C4_NotPdfOutcome ==
    (/\ Returned_from_call
     /\ response.state # "none"
     /\ Is2xx(response.status)
     /\ MediaType(response.ctype) # STR_application_pdf)
        => /\ outcome = IF MarkerIn(response.body) THEN "AuthDenied"
                        ELSE "UnexpectedContentType"
           /\ full_path \notin DOMAIN store
\* C4, amended: a 2xx response whose Content-Type header does not contain
\* "application/pdf" creates no file; if its body was read without a transport
\* error, the outcome is AuthDenied when the body holds "Login" or, in any
\* case, "access denied", and UnexpectedContentType otherwise.
C4_NotPdfOutcomeWhenRead ==
    (/\ Returned_from_call
     /\ response.state # "none"
     /\ Is2xx(response.status)
     /\ ~OccursIn(response.ctype, STR_application_pdf))
        => /\ full_path \notin DOMAIN store
           /\ response.body_read =>
                outcome = IF MarkerIn(response.body) THEN "AuthDenied"
                          ELSE "UnexpectedContentType"
\* An access-denied page in mixed case, served as text/html.
C4_Witness ==
    /\ pc = "loop"
    /\ response.status = 200
    /\ response.ctype = STR_text_html
    /\ response.body_read
    /\ OccursIn(lower(response.body), STR_access_denied)
    /\ ~OccursIn(response.body, STR_access_denied)
    /\ outcome = "AuthDenied"

\* C5: in a run that reaches the download phase, download_pdf is called once
\* for each position of the identifier list, in order, one call at a time,
\* whatever the outcome of the earlier calls; the run ends only after the last
\* one.
ids_called == [i \in DOMAIN calls |-> calls[i].id]
C5_EveryIdAttempted ==
    /\ ids_called = SubSeq(pdf_ids, 1, Len(calls))
    /\ pc \in {"request", "headers", "stream"} => Len(calls) = idx
    /\ pc = "loop" => Len(calls) = idx - 1
    /\ pc \in {"done", "crashed"} => Len(calls) = Len(pdf_ids)
\* The run is complete: an earlier call met an error status (its response is
\* the one still open) and the calls after it were made all the same.
C5_Witness ==
    /\ pc = "done"
    /\ exit_reason = "completed"
    /\ Len(calls) = MaxIds
    /\ ids_called = pdf_ids
    /\ open_responses >= 1
    /\ outcome = "Downloaded"

\* C6: a run in which the session is not acquired, the catalog fetch fails or
\* returns an empty body, or extraction fails or yields no identifier, ends
\* without a download request and with the store as it was.
Terminated == pc \in {"done", "crashed"}
ExtractionOf(data) == extract_pdf_document_ids(data.p)
C6_EarlyExit ==
    (/\ Terminated
     /\ \/ session_result = "None"
        \/ fetch_log \in {"AuthError", "TimeoutError", "NetworkError"}
        \/ (fetch_log = "ok" /\ raw_data.p.text = "empty")
        \/ (fetch_log = "ok" /\ ExtractionOf(raw_data).raised)
        \/ (fetch_log = "ok" /\ ExtractionOf(raw_data).ids = <<>>))
        => /\ dl_requests = 0
           /\ calls = <<>>
           /\ store = store0
\* Extraction raised on a catalog of another shape, over a store that held a
\* file.
C6_Witness ==
    /\ pc = "crashed"
    /\ fetch_log = "ok"
    /\ raw_data.p.top = "array"
    /\ store0 # <<>>
    /\ store = store0
    /\ dl_requests = 0

\* The catalog is well formed: data.Data is an array of rows, each an array of
\* strings.
IsRowList(p) ==
    /\ p.text = "json" /\ p.top = "object" /\ p.data = "object" /\ p.Data = "array"
    /\ \A i \in DOMAIN p.rows :
        /\ p.rows[i].kind = "array"
        /\ \A k \in DOMAIN p.rows[i].fields : p.rows[i].fields[k].kind = "string"
HasPdfSuffix(id) ==
    LET n == Len(id)
    IN  n >= 4 /\ id[n - 3] = "_" /\ id[n - 2] = "P" /\ id[n - 1] = "D" /\ id[n] = "F"
QualifyingRow(row) == row.fields # <<>> /\ HasPdfSuffix(row.fields[1].s)
FirstFieldsOf(rows) == [i \in DOMAIN rows |-> rows[i].fields[1].s]

\* C7: on a catalog whose data.Data is a list of rows, the result is the
\* sequence of the first fields of the non-empty rows whose first field ends
\* with _PDF, in row order, duplicates kept.
C7_ExtractionIsTheFilter ==
    (x_pc = "done" /\ IsRowList(x_payload))
        => /\ ~x_result.raised
           /\ x_result.ids = FirstFieldsOf(SelectSeq(x_payload.rows, QualifyingRow))
\* Two rows with the same identifier: both occurrences are returned.
C7_Witness ==
    /\ x_pc = "done"
    /\ IsRowList(x_payload)
    /\ Len(x_payload.rows) = 2
    /\ x_payload.rows[1] = x_payload.rows[2]
    /\ Len(x_result.ids) = 2
    /\ x_result.ids[1] = x_result.ids[2]

\* C8: extract_pdf_document_ids never raises, and returns the empty list when
\* the payload is not parseable or the path data.Data is absent or malformed.
PathMalformed(p) ==
    p.text # "json" \/ p.top # "object" \/ p.data # "object" \/ p.Data # "array"
C8_NeverRaises ==
    x_pc = "done"
        => /\ ~x_result.raised
           /\ PathMalformed(x_payload) => x_result.ids = <<>>

\* The content= value of a URL, cut at the first "&" and stripped.
StrippedValue(url) == strip(split_amp_first(re_search_content(url).group1))
ClaimedSafeChars == AsciiLetters \cup Digits \cup {".", "_", "-"}
\* Positions of v that survive when every run of unsafe characters is cut down
\* to its first character.
KeptPositions(v) ==
    {i \in DOMAIN v : i = 1 \/ IsSafeChar(v[i]) \/ IsSafeChar(v[i - 1])}
RunsReplaced(v) ==
    LET K == KeptPositions(v)
        nth(k) == CHOOSE i \in K : Cardinality({j \in K : j <= i}) = k
    IN  [k \in 1..Cardinality(K) |->
            IF IsSafeChar(v[nth(k)]) THEN v[nth(k)] ELSE "_"]

\* C9 as stated: the sanitized name is the value with every character outside
\* [A-Za-z0-9._-] replaced by one underscore, character for character.
C9_CharForChar ==
    (n_pc = "done" /\ re_search_content(n_url).found)
        => LET v == StrippedValue(n_url)
           IN  n_safe_name =
                 [i \in DOMAIN v |-> IF v[i] \in ClaimedSafeChars THEN v[i] ELSE "_"]
\* C9, amended: the sanitized name is the value with every maximal run of
\* characters that are neither word characters (letters of any script, digits,
\* the underscore) nor "." nor "-" replaced by one underscore, and every other
\* character unchanged.
C9_RunForUnderscore ==
    (n_pc = "done" /\ re_search_content(n_url).found)
        => n_safe_name = RunsReplaced(StrippedValue(n_url))
\* A value holding a run of two unsafe characters between safe ones.
C9_Witness ==
    /\ n_pc = "done"
    /\ n_url = pdf_base_url \o <<"/", "/">> \o STR_dot_pdf
    /\ n_safe_name = <<"_">> \o STR_dot_pdf

\* C10: two distinct identifiers get two distinct local paths, and no
\* identifier is skipped because of a file written for another one.
C10_CollisionFree ==
    /\ \A i, j \in DOMAIN calls :
         calls[i].id # calls[j].id => calls[i].path # calls[j].path
    /\ (calls # <<>> /\ outcome = "Skipped" /\ full_path \notin DOMAIN store0)
           => \E i \in 1..(Len(calls) - 1) : calls[i].id = calls[Len(calls)].id

\* The sweep has reported completion.
SweepComplete == v_pc = "complete"
\* The discovered files validate_pdf_file found valid / not valid.
FoundValid == { p \in pdf_file_paths : task[p].ret }
FoundInvalid == { p \in pdf_file_paths : ~task[p].ret }
\* The files of the listed directory that are gone.
RemovedBySweep == DOMAIN v_store \ DOMAIN store
Untouched(p) == p \in DOMAIN store /\ store[p] = v_store[p]

\* C11 (as stated): after a sweep the files removed are exactly the discovered
\* files for which validation returned something other than Valid, and every
\* file found Valid still exists unchanged.
C11_RemovedExactlyInvalid ==
    SweepComplete =>
        /\ RemovedBySweep = FoundInvalid
        /\ \A p \in FoundValid : Untouched(p)

\* C11 (amended): after a sweep the files removed are exactly the discovered
\* files found not Valid whose deletion succeeded; a file found not Valid whose
\* deletion failed, and every file found Valid, still exists unchanged.
C11_RemovedInvalidWhenDeletable ==
    SweepComplete =>
        /\ RemovedBySweep = { p \in FoundInvalid : task[p].removal = "removed" }
        /\ \A p \in FoundInvalid : task[p].removal # "removed" => Untouched(p)
        /\ \A p \in FoundValid : Untouched(p)

\* A completed sweep that kept a valid file, removed an invalid one and failed
\* to delete another.
C11_Witness ==
    /\ SweepComplete
    /\ \E p \in FoundValid : Untouched(p)
    /\ \E p \in FoundInvalid : task[p].removal = "removed" /\ p \notin DOMAIN store
    /\ \E p \in FoundInvalid : task[p].removal = "permission"

\* Failures of the engine and of the deletion, as the task records them.
EngineFailures == {"no_pages", "RuntimeError", "FileNotFoundError", "Exception"}
RemovalFailures == {"not_found", "permission", "error"}
NonValidLogs == {"InvalidNoPages", "Corrupt", "NotFound", "Unexpected"}
Validated(p) == task[p].event # ""

\* C12: no failure on a single file aborts the sweep: validate_pdf_file turns
\* every failure of the engine (unreadable, corrupt, missing file, any other
\* exception) into a result other than Valid and raises nothing,
\* remove_system_file turns every failed deletion into a result and raises
\* nothing, and a sweep that completes has validated every discovered file.
C12_FailuresAreResults ==
    /\ \A p \in DOMAIN task :
        /\ ~task[p].raised
        /\ task[p].event \in EngineFailures =>
                ~task[p].ret /\ task[p].log \in NonValidLogs
        /\ task[p].removal \in RemovalFailures => task[p].stage = "done"
    /\ v_pc \in {"pool", "complete"} => DOMAIN task = pdf_file_paths
    /\ SweepComplete => \A p \in pdf_file_paths : Validated(p) /\ task[p].stage = "done"

\* A completed sweep in which one file was missing when it was validated and
\* another file was validated all the same.
C12_Witness ==
    /\ SweepComplete
    /\ \E p, q \in pdf_file_paths :
        /\ p # q
        /\ task[p].event \in {"FileNotFoundError", "RuntimeError"}
        /\ task[p].removal = "not_found"
        /\ Validated(q)

\* fetch_json_data has failed, having caught an exception.
FetchFailed == fetch_exc # NoFetchException

\* C13: fetch_json_data reports every timeout of the catalog request as a
\* timeout error, every 401/403 as an authentication error and every other
\* failure as a generic network error, and returns no payload in all three
\* cases; download_pdf reports every timeout as a timeout too.
C13_TimeoutsReportedAsTimeouts ==
    /\ FetchFailed =>
        /\ raw_data = NoData
        /\ fetch_log = (IF fetch_exc.e.timeout THEN "TimeoutError"
                        ELSE IF fetch_exc.status \in {401, 403} THEN "AuthError"
                        ELSE "NetworkError")
    /\ (Returned_from_call /\ caught.timeout) => outcome = "TimeoutError"

\* The URL handed to url_to_filename has a content= parameter.
HasContentParam == OccursIn(n_url, STR_content_eq)
\* s ends with ".pdf" in some mix of letter cases.
EndsWithPdfAnyCase(s) ==
    LET n == Len(s)
    IN  /\ n >= 4
        /\ s[n - 3] = "."
        /\ s[n - 2] \in {"p", "P"}
        /\ s[n - 1] \in {"d", "D"}
        /\ s[n] \in {"f", "F"}
Placeholder ==
    <<"d", "o", "w", "n", "l", "o", "a", "d", "e", "d", "_", "f", "i", "l", "e",
      ".", "p", "d", "f">>

\* C14: url_to_filename returns downloaded_file.pdf when the URL has no
\* content= value; otherwise it returns the sanitized name unchanged when that
\* name already ends with .pdf in any letter case, and the sanitized name
\* followed by .pdf when it does not.
C14_PlaceholderAndExtension ==
    n_pc = "done" =>
        IF ~HasContentParam
        THEN n_result = Placeholder
        ELSE IF EndsWithPdfAnyCase(n_safe_name)
        THEN n_result = n_safe_name
        ELSE n_result = n_safe_name \o <<".", "p", "d", "f">>

\* A URL whose sanitized value ends with .PDF: the name is returned as it is.
C14_Witness ==
    /\ n_pc = "done"
    /\ HasContentParam
    /\ EndsWithPdfAnyCase(n_safe_name)
    /\ ~endswith(n_safe_name, STR_dot_pdf)
    /\ n_result = n_safe_name

\* A URL without content=: the placeholder is returned.
C14_WitnessPlaceholder ==
    /\ n_pc = "done"
    /\ ~HasContentParam
    /\ n_result = Placeholder

\* C15: when a download_pdf call has returned, every response the call opened
\* has been closed, on every exit path.
C15_ResponsesClosedOnReturn ==
    pc \in {"loop", "done"} =>
        /\ open_responses = 0
        /\ response.state # "open"

\* The task of p has run to its end: validated, and deleted (or the deletion
\* failed) if the file was found invalid.
TaskEnded(p) ==
    /\ task[p].stage = "done"
    /\ Validated(p)
    /\ ~task[p].ret => task[p].removal # ""

\* C16: when the sweep reports completion, every discovered path has been
\* handed to the pool and its validation, and deletion if invalid, has ended;
\* no task is queued or running.
C16_CompleteMeansAllEnded ==
    SweepComplete =>
        /\ pdf_file_paths =
              walk_directory_and_extract_given_file_extension(
                  v_store, search_directory, target_extension)
        /\ DOMAIN task = pdf_file_paths
        /\ \A p \in pdf_file_paths : TaskEnded(p)
        /\ Running = {}
        /\ ~\E p \in DOMAIN task : task[p].stage = "queued"

\* A completed sweep over three discovered files, one of them deleted.
C16_Witness ==
    /\ SweepComplete
    /\ Cardinality(pdf_file_paths) >= 3
    /\ \E p \in pdf_file_paths : task[p].removal = "removed"
    /\ \E p \in pdf_file_paths : task[p].ret

\* download_pdf has the file at p open for writing (lines 305-314).
DownloadWriting(p) == pc = "stream" /\ full_path = p

\* C17: each discovered path belongs to one task, and no task validates or
\* deletes a path while a download is writing that path: while download_pdf
\* has the file open, the task of that path takes no validation or deletion
\* step.
C17_NoContention ==
    [][\A p \in DOMAIN task :
          (DownloadWriting(p) /\ task[p].stage \in {"validate", "remove"})
              => task'[p] = task[p]]_vars

\* C18 (as stated): the pool has max(n, 4) workers for every CPU count n the
\* platform reports, the unknown count included, and never more than that
\* many validations run at the same time.
Larger(a, b) == IF a >= b THEN a ELSE b
C18_PoolSizeIsMaxOfCountAnd4 ==
    v_pc \in {"pool", "complete"} =>
        /\ MAX_WORKERS = Larger(cpu_count, 4)
        /\ Cardinality(Running) <= Larger(cpu_count, 4)

\* C18 (amended): the pool has n workers when the platform reports a CPU
\* count n of at least 1, and 4 workers when the count is unknown; never more
\* than that many validations run at the same time.
C18_PoolSizeIsCountOr4 ==
    v_pc \in {"pool", "complete"} =>
        /\ cpu_count >= 1 => MAX_WORKERS = cpu_count
        /\ cpu_count = 0 => MAX_WORKERS = 4
        /\ Cardinality(Running) <= MAX_WORKERS

\* A pool of one worker that is busy while two tasks wait in the queue.
C18_Witness ==
    /\ v_pc = "pool"
    /\ cpu_count = 1
    /\ Cardinality(Running) = MAX_WORKERS
    /\ Cardinality({ p \in DOMAIN task : task[p].stage = "queued" }) >= 2

\* The identifier of the download URL handed to url_to_filename: what follows
\* the base URL (download_pdf builds the URL as base URL + identifier).
IdOfUrl == DropFirst(n_url, Len(pdf_base_url))
IsDownloadUrlOfPdfId ==
    /\ Len(n_url) >= Len(pdf_base_url)
    /\ SubSeq(n_url, 1, Len(pdf_base_url)) = pdf_base_url
    /\ HasPdfSuffix(IdOfUrl)
\* A directory that holds nothing but a file of the given name.
DirectoryWith(name) == [q \in {os_path_join(output_dir, name)} |-> <<"a">>]

\* C19: for every identifier ending in _PDF, the name download_pdf gives the
\* file ends with the lower-case suffix .pdf, so that a sweep for the extension
\* .pdf over the directory lists the file.
C19_DownloadedFilesAreSwept ==
    (n_pc = "done" /\ IsDownloadUrlOfPdfId) =>
        /\ n_result = path_of(IdOfUrl)[2]
        /\ endswith(n_result, <<".", "p", "d", "f">>)
        /\ os_path_join(output_dir, n_result) \in
              walk_directory_and_extract_given_file_extension(
                  DirectoryWith(n_result), search_directory, target_extension)

====
